---- MODULE Spec2Model ----
(***************************************************************************)
(* Hospital management system (src/hms.c): the four fixed-capacity tables, *)
(* their counts and next-id counters, the save file, and the menu loop of  *)
(* main() over successive runs of the program.                             *)
(*                                                                         *)
(* A table is modelled by its live prefix (positions 0..count-1 of the C   *)
(* array, kept here as the sequence 1..count): every loop of the program   *)
(* over a table is bounded by the table's count, so a slot at or beyond    *)
(* the count is never read before it is overwritten.                       *)
(***************************************************************************)
EXTENDS Integers, Sequences, FiniteSets, TLC

\* ------------------------------------------------------------- bounds
\* Table capacities (500, 200, 100 and 1000 in the program), scaled down.
MAX_PATIENTS == 2
MAX_DISEASES == 1
MAX_DOCTORS == 2
MAX_APPOINTS == 2
\* No add is explored once the table's next-id counter has passed MaxId
\* (MaxAppointmentId for the appointments).
MaxId == 3
MaxAppointmentId == 2
\* Bounds of the whole-program specification (Spec): the same with next-id
\* counters up to RunMaxId and at most RunMaxAppointments appointments, and
\* at most MaxDirty changes of the tables since the database in memory was
\* last saved or loaded.
RunMaxId == 2
RunMaxAppointments == 1
MaxDirty == 2
\* Bound of the specification of the sort and the search by name (SpecNames):
\* the patients in the table when they run.
SortMaxPatients == 3

\* ------------------------------------------------------------- inputs
\* Patient names as strings of ASCII codes: "Bob", "alice".
Names == { <<66, 111, 98>>, <<97, 108, 105, 99, 101>> }
Ages == {30}
Genders == {"F"}
Phones == {"555"}
DiseaseTexts == {"flu"}
DoctorNames == {"Dr. Smith"}
Specializations == {"ENT"}
DiseaseNames == {"Flu"}
Symptoms == {"fever"}
Treatments == {"rest"}
Dates == {"2025-01-01"}
Times == {"09:00"}
\* What get_int_from_user can return where an id is asked for.
IdInputs == 0..MaxId
\* The names searched for: "Bob", "alice", "ALICE", "al".
QueryNames ==
    { <<66, 111, 98>>, <<97, 108, 105, 99, 101>>, <<65, 76, 73, 67, 69>>, <<97, 108>> }
\* The names of SpecNames, of patients and of searches: "Bob", "alice",
\* "Charlie", "John", "JOHN", "john", "Jo", "Johnny".
SortNames ==
    { <<66, 111, 98>>, <<97, 108, 105, 99, 101>>, <<67, 104, 97, 114, 108, 105, 101>>,
      <<74, 111, 104, 110>>, <<74, 79, 72, 78>>, <<106, 111, 104, 110>>,
      <<74, 111>>, <<74, 111, 104, 110, 110, 121>> }
\* The first character of the answer to a y/n prompt.
Confirms == {"y", "Y", "n"}
\* The inputs of the whole-program specification.
RunNames == { <<97, 108, 105, 99, 101>> }
RunIdInputs == 0..RunMaxId
RunConfirms == {"y"}

VARIABLES
    patients, diseases, doctors, appointments,
    patientCount, diseaseCount, doctorCount, appointmentCount,
    nextPatientId, nextDiseaseId, nextDoctorId, nextAppointmentId,
    fileExists, file,   \* hospital_data.bin
    pc,                 \* where main() is: "start", "menu" or "exited"
    out,                \* the messages the last handler printed, in order
    hist,               \* the ids handed out, in order, on the way to the
                        \* database now in memory, per entity type
    fileHist,           \* hist of the database that the save file holds
    saved,              \* the tables, counts and next-id counters as they were
                        \* when the save file was last written
    dirty,              \* changes of the tables since the database in memory
                        \* was last saved or loaded
    eof,                \* stdin is at end-of-file: fgets returns NULL
    at                  \* the prompt of get_int_from_user the run is at:
                        \* "get_choice", or the handler that asks for an id

tables == <<patients, diseases, doctors, appointments>>
counts == <<patientCount, diseaseCount, doctorCount, appointmentCount>>
nextIds == <<nextPatientId, nextDiseaseId, nextDoctorId, nextAppointmentId>>
memory == <<tables, counts, nextIds>>
disk == <<fileExists, file, fileHist, saved>>
input == <<eof, at>>
vars == <<memory, disk, pc, out, hist, dirty, input>>

\* ------------------------------------------------------------- helpers
tolower(c) == IF c \in 65..90 THEN c + 32 ELSE c

\* The character a C string pointer points at: 0 at the terminator.
CharAt(s) == IF s = <<>> THEN 0 ELSE Head(s)

RECURSIVE stricmp_custom(_, _)
stricmp_custom(a, b) ==
    IF a # <<>> /\ b # <<>>
    THEN IF tolower(Head(a)) # tolower(Head(b))
         THEN tolower(Head(a)) - tolower(Head(b))
         ELSE stricmp_custom(Tail(a), Tail(b))
    ELSE tolower(CharAt(a)) - tolower(CharAt(b))

\* for (i = 0; i < count; i++) if (tab[i].id == id) return i;  return -1;
\* The index returned is the C one (0-based).
findIndex_zero(tab, count, id) ==
    LET hits == { i \in 0..(count - 1) : tab[i + 1].id = id }
    IN  IF hits = {} THEN 0
        ELSE CHOOSE i \in hits : \A j \in hits : i <= j
findIndex(tab, count, id) ==
    LET hits == { i \in 0..(count - 1) : tab[i + 1].id = id }
    IN  IF hits = {} THEN 0 - 1
        ELSE CHOOSE i \in hits : \A j \in hits : i <= j

findPatientIndex(id) == findIndex(patients, patientCount, id)
findDoctorIndex(id) == findIndex(doctors, doctorCount, id)
findAppointmentIndex(id) == findIndex(appointments, appointmentCount, id)

\* tab[count++] = r, seen on the live prefix.
Store(tab, count, r) == [ j \in 1..(count + 1) |-> IF j <= count THEN tab[j] ELSE r ]

\* for (j = i; j < count - 1; j++) tab[j] = tab[j+1];  count--;
ShiftLeft_offByOne(tab, count, i) ==
    [ j \in 1..(count - 1) |-> IF j - 1 <= i THEN tab[j] ELSE tab[j + 1] ]
ShiftLeft(tab, count, i) ==
    [ j \in 1..(count - 1) |-> IF j - 1 < i THEN tab[j] ELSE tab[j + 1] ]

\* if (count >= MAX) { "Max ... reached"; return; }
AtCapacity_above(count, max) == count > max
AtCapacity(count, max) == count >= max

\* id = nextId++
PostIncrement_skip(n) == n + 2
PostIncrement(n) == n + 1

\* The empty per-type history.
NoHist == [ patient |-> <<>>, disease |-> <<>>, doctor |-> <<>>, appointment |-> <<>> ]

\* ------------------------------------------------------------- persistence
\* What saveData writes: the four counts, the four next-id counters, then the
\* first count records of each table, in this order.
FileImage_swappedCounters ==
    <<patientCount, diseaseCount, doctorCount, appointmentCount,
      nextPatientId, nextDoctorId, nextDiseaseId, nextAppointmentId>>
    \o SubSeq(patients, 1, patientCount)
    \o SubSeq(diseases, 1, diseaseCount)
    \o SubSeq(doctors, 1, doctorCount)
    \o SubSeq(appointments, 1, appointmentCount)
FileImage_countersNotSaved ==
    <<patientCount, diseaseCount, doctorCount, appointmentCount, 1, 1, 1, 1>>
    \o SubSeq(patients, 1, patientCount)
    \o SubSeq(diseases, 1, diseaseCount)
    \o SubSeq(doctors, 1, doctorCount)
    \o SubSeq(appointments, 1, appointmentCount)
FileImage ==
    <<patientCount, diseaseCount, doctorCount, appointmentCount,
      nextPatientId, nextDiseaseId, nextDoctorId, nextAppointmentId>>
    \o SubSeq(patients, 1, patientCount)
    \o SubSeq(diseases, 1, diseaseCount)
    \o SubSeq(doctors, 1, doctorCount)
    \o SubSeq(appointments, 1, appointmentCount)

\* fread of the k-th int of the header (k = 1..8).
ReadInt(f, k) == f[k]

\* fread of n records that follow the first off items of the file.
ReadRecords(f, off, n) == [ j \in 1..n |-> f[off + j] ]

HeaderInts == 8

\* saveData(): ok is whether fopen(..., "wb") succeeded.
saveData_appends(ok) ==
    IF ok
    THEN /\ fileExists' = TRUE
         /\ file' = file \o FileImage
         /\ fileHist' = hist
         /\ saved' = memory
    ELSE UNCHANGED disk
saveData(ok) ==
    IF ok
    THEN /\ fileExists' = TRUE
         /\ file' = FileImage
         /\ fileHist' = hist
         /\ saved' = memory
    ELSE UNCHANGED disk

\* loadData(), called once by main() before the menu loop.
LoadData_countersFromZero ==
    /\ pc = "start"
    /\ pc' = "menu"
    /\ UNCHANGED disk
    /\ IF ~fileExists
       THEN /\ out' = << "NoSaveFile" >>
            /\ nextPatientId' = 0 /\ nextDiseaseId' = 0 /\ nextDoctorId' = 0
            /\ nextAppointmentId' = 0
            /\ UNCHANGED <<tables, counts, hist>>
       ELSE /\ patientCount' = ReadInt(file, 1)
            /\ diseaseCount' = ReadInt(file, 2)
            /\ doctorCount' = ReadInt(file, 3)
            /\ appointmentCount' = ReadInt(file, 4)
            /\ nextPatientId' = ReadInt(file, 5)
            /\ nextDiseaseId' = ReadInt(file, 6)
            /\ nextDoctorId' = ReadInt(file, 7)
            /\ nextAppointmentId' = ReadInt(file, 8)
            /\ patients' = ReadRecords(file, HeaderInts, patientCount')
            /\ diseases' = ReadRecords(file, HeaderInts + patientCount', diseaseCount')
            /\ doctors' = ReadRecords(file, HeaderInts + patientCount' + diseaseCount',
                                      doctorCount')
            /\ appointments' = ReadRecords(file, HeaderInts + patientCount' + diseaseCount'
                                                 + doctorCount', appointmentCount')
            /\ out' = << "DataLoaded" >>
            /\ hist' = fileHist
LoadData ==
    /\ pc = "start"
    /\ pc' = "menu"
    /\ UNCHANGED disk
    /\ IF ~fileExists
       THEN /\ out' = << "NoSaveFile" >>
            /\ UNCHANGED <<memory, hist>>
       ELSE /\ patientCount' = ReadInt(file, 1)
            /\ diseaseCount' = ReadInt(file, 2)
            /\ doctorCount' = ReadInt(file, 3)
            /\ appointmentCount' = ReadInt(file, 4)
            /\ nextPatientId' = ReadInt(file, 5)
            /\ nextDiseaseId' = ReadInt(file, 6)
            /\ nextDoctorId' = ReadInt(file, 7)
            /\ nextAppointmentId' = ReadInt(file, 8)
            /\ patients' = ReadRecords(file, HeaderInts, patientCount')
            /\ diseases' = ReadRecords(file, HeaderInts + patientCount', diseaseCount')
            /\ doctors' = ReadRecords(file, HeaderInts + patientCount' + diseaseCount',
                                      doctorCount')
            /\ appointments' = ReadRecords(file, HeaderInts + patientCount' + diseaseCount'
                                                 + doctorCount', appointmentCount')
            /\ out' = << "DataLoaded" >>
            /\ hist' = fileHist

\* Menu choice 14.
SaveData_abortOnFailure(ok) ==
    /\ pc = "menu"
    /\ saveData(ok)
    /\ out' = << (IF ok THEN "DataSaved" ELSE "SaveOpenFailed") >>
    /\ pc' = IF ok THEN "menu" ELSE "exited"
    /\ UNCHANGED <<memory, hist>>
SaveData(ok) ==
    /\ pc = "menu"
    /\ saveData(ok)
    /\ out' = << (IF ok THEN "DataSaved" ELSE "SaveOpenFailed") >>
    /\ UNCHANGED <<memory, pc, hist>>

\* Menu choice 15: saveData(), then running = 0.
Exit_withoutSave(ok) ==
    /\ pc = "menu"
    /\ out' = << "Exiting" >>
    /\ pc' = "exited"
    /\ UNCHANGED <<memory, disk, hist>>
Exit(ok) ==
    /\ pc = "menu"
    /\ saveData(ok)
    /\ out' = << (IF ok THEN "DataSaved" ELSE "SaveOpenFailed"),
                 "Exiting" >>
    /\ pc' = "exited"
    /\ UNCHANGED <<memory, hist>>

\* The program is started again: the globals have their initial values, the
\* save file is what the earlier runs left.
Restart ==
    /\ pc = "exited"
    /\ pc' = "start"
    /\ patients' = <<>> /\ diseases' = <<>> /\ doctors' = <<>> /\ appointments' = <<>>
    /\ patientCount' = 0 /\ diseaseCount' = 0 /\ doctorCount' = 0
    /\ appointmentCount' = 0
    /\ nextPatientId' = 1 /\ nextDiseaseId' = 1 /\ nextDoctorId' = 1
    /\ nextAppointmentId' = 1
    /\ out' = <<>>
    /\ hist' = NoHist
    /\ UNCHANGED disk

\* ------------------------------------------------------------- doctors
\* if (docId != 0 && findDoctorIndex(docId) != -1) p.doctorId = docId; else 0
\* and 0 without asking when there is no doctor.
AssignedDoctor_unchecked(docId) == docId
AssignedDoctor_noLookup(docId) == IF doctorCount > 0 THEN docId ELSE 0
AssignedDoctor(docId) ==
    IF doctorCount > 0
    THEN IF docId # 0 /\ findDoctorIndex(docId) # 0 - 1 THEN docId ELSE 0
    ELSE 0

AddDoctor_patientCounter(n, s, ph) ==
    /\ pc = "menu"
    /\ IF AtCapacity(doctorCount, MAX_DOCTORS)
       THEN /\ out' = << "MaxDoctorsReached" >>
            /\ UNCHANGED <<memory, hist>>
       ELSE /\ doctors' = Store(doctors, doctorCount,
                                [id |-> nextDoctorId, name |-> n,
                                 specialization |-> s, phone |-> ph])
            /\ nextDoctorId' = PostIncrement(nextDoctorId)
            /\ nextPatientId' = PostIncrement(nextPatientId)
            /\ doctorCount' = doctorCount + 1
            /\ out' = << "DoctorAdded" >>
            /\ hist' = [hist EXCEPT !.doctor = Append(@, nextDoctorId)]
            /\ UNCHANGED <<patients, diseases, appointments, patientCount, diseaseCount,
                           appointmentCount, nextDiseaseId, nextAppointmentId>>
    /\ UNCHANGED <<disk, pc>>
AddDoctor(n, s, ph) ==
    /\ pc = "menu"
    /\ IF AtCapacity(doctorCount, MAX_DOCTORS)
       THEN /\ out' = << "MaxDoctorsReached" >>
            /\ UNCHANGED <<memory, hist>>
       ELSE /\ doctors' = Store(doctors, doctorCount,
                                [id |-> nextDoctorId, name |-> n,
                                 specialization |-> s, phone |-> ph])
            /\ nextDoctorId' = PostIncrement(nextDoctorId)
            /\ doctorCount' = doctorCount + 1
            /\ out' = << "DoctorAdded" >>
            /\ hist' = [hist EXCEPT !.doctor = Append(@, nextDoctorId)]
            /\ UNCHANGED <<patients, diseases, appointments, patientCount, diseaseCount,
                           appointmentCount, nextPatientId, nextDiseaseId,
                           nextAppointmentId>>
    /\ UNCHANGED <<disk, pc>>

AddDisease(n, s, t) ==
    /\ pc = "menu"
    /\ IF AtCapacity(diseaseCount, MAX_DISEASES)
       THEN /\ out' = << "MaxDiseasesReached" >>
            /\ UNCHANGED <<memory, hist>>
       ELSE /\ diseases' = Store(diseases, diseaseCount,
                                 [id |-> nextDiseaseId, name |-> n,
                                  symptoms |-> s, treatment |-> t])
            /\ nextDiseaseId' = PostIncrement(nextDiseaseId)
            /\ diseaseCount' = diseaseCount + 1
            /\ out' = << "DiseaseAdded" >>
            /\ hist' = [hist EXCEPT !.disease = Append(@, nextDiseaseId)]
            /\ UNCHANGED <<patients, doctors, appointments, patientCount, doctorCount,
                           appointmentCount, nextPatientId, nextDoctorId,
                           nextAppointmentId>>
    /\ UNCHANGED <<disk, pc>>

\* ------------------------------------------------------------- patients
AddPatient(n, a, g, ph, d, docId) ==
    /\ pc = "menu"
    /\ IF AtCapacity(patientCount, MAX_PATIENTS)
       THEN /\ out' = << "MaxPatientsReached" >>
            /\ UNCHANGED <<memory, hist>>
       ELSE /\ patients' = Store(patients, patientCount,
                                 [id |-> nextPatientId, name |-> n, age |-> a,
                                  gender |-> g, phone |-> ph, disease |-> d,
                                  doctorId |-> AssignedDoctor(docId)])
            /\ out' = << IF doctorCount = 0 THEN "NoDoctorsInSystem"
                         ELSE IF AssignedDoctor(docId) # 0 THEN "DoctorAssigned"
                         ELSE IF docId # 0 THEN "NoDoctorFound"
                         ELSE "PatientAssignedNone",
                         "PatientAdded" >>
            /\ nextPatientId' = PostIncrement(nextPatientId)
            /\ patientCount' = patientCount + 1
            /\ hist' = [hist EXCEPT !.patient = Append(@, nextPatientId)]
            /\ UNCHANGED <<diseases, doctors, appointments, diseaseCount, doctorCount,
                           appointmentCount, nextDiseaseId, nextDoctorId,
                           nextAppointmentId>>
    /\ UNCHANGED <<disk, pc>>

DeletePatient_reclaim(id, confirm) ==
    /\ pc = "menu"
    /\ LET i == findPatientIndex(id) IN
       IF id > 0 /\ i # 0 - 1 /\ confirm \in {"y", "Y"}
       THEN /\ patients' = ShiftLeft(patients, patientCount, i)
            /\ patientCount' = patientCount - 1
            /\ nextPatientId' = nextPatientId - 1
            /\ out' = << "PatientFound", "PatientDeleted" >>
            /\ UNCHANGED <<diseases, doctors, appointments, diseaseCount, doctorCount,
                           appointmentCount, nextDiseaseId, nextDoctorId,
                           nextAppointmentId>>
       ELSE /\ out' = << "NoPatientFound" >>
            /\ UNCHANGED memory
    /\ UNCHANGED <<disk, pc, hist>>
DeletePatient_cascade(id, confirm) ==
    /\ pc = "menu"
    /\ LET i == findPatientIndex(id) IN
       IF id <= 0
       THEN /\ out' = << "InvalidId" >>
            /\ UNCHANGED memory
       ELSE IF i # 0 - 1
       THEN IF confirm \in {"y", "Y"}
            THEN /\ patients' = ShiftLeft(patients, patientCount, i)
                 /\ patientCount' = patientCount - 1
                 /\ appointments' = SelectSeq(appointments, LAMBDA a : a.patientId # id)
                 /\ appointmentCount' = Len(appointments')
                 /\ out' = << "PatientFound", "PatientDeleted" >>
                 /\ UNCHANGED <<diseases, doctors, diseaseCount, doctorCount, nextIds>>
            ELSE /\ out' = << "PatientFound", "DeletionCanceled" >>
                 /\ UNCHANGED memory
       ELSE /\ out' = << "NoPatientFound" >>
            /\ UNCHANGED memory
    /\ UNCHANGED <<disk, pc, hist>>
DeletePatient(id, confirm) ==
    /\ pc = "menu"
    /\ LET i == findPatientIndex(id) IN
       IF id <= 0
       THEN /\ out' = << "InvalidId" >>
            /\ UNCHANGED memory
       ELSE IF i # 0 - 1
       THEN IF confirm \in {"y", "Y"}
            THEN /\ patients' = ShiftLeft(patients, patientCount, i)
                 /\ patientCount' = patientCount - 1
                 /\ out' = << "PatientFound", "PatientDeleted" >>
                 /\ UNCHANGED <<diseases, doctors, appointments, diseaseCount,
                                doctorCount, appointmentCount, nextIds>>
            ELSE /\ out' = << "PatientFound", "DeletionCanceled" >>
                 /\ UNCHANGED memory
       ELSE /\ out' = << "NoPatientFound" >>
            /\ UNCHANGED memory
    /\ UNCHANGED <<disk, pc, hist>>

\* searchPatientById(): the details of the patient found are printed, headed
\* by "ID: %d".
SearchPatientById(id) ==
    /\ pc = "menu"
    /\ LET i == findPatientIndex(id) IN
       out' = IF id <= 0 THEN << "InvalidId" >>
              ELSE IF i # 0 - 1 THEN << "PatientDetails", ToString(patients[i + 1].id) >>
              ELSE << "PatientNotFound" >>
    /\ UNCHANGED <<memory, disk, pc, hist>>

\* if (stricmp_custom(patients[i].name, name) == 0)
NameMatches_prefix(stored, name) ==
    /\ Len(name) <= Len(stored)
    /\ \A k \in 1..Len(name) : tolower(stored[k]) = tolower(name[k])
NameMatches(stored, name) == stricmp_custom(stored, name) = 0

\* searchPatientByName(): one line "ID: %d | Name: ... | Disease: ..." for
\* each match, in table order, under the heading "Matches:".
SearchPatientByName(name) ==
    /\ pc = "menu"
    /\ LET found == SelectSeq(SubSeq(patients, 1, patientCount),
                              LAMBDA p : NameMatches(p.name, name))
       IN  out' = IF found = <<>> THEN << "NoPatientNamed" >>
                  ELSE << "Matches" >> \o [ j \in 1..Len(found) |-> ToString(found[j].id) ]
    /\ UNCHANGED <<memory, disk, pc, hist>>

\* int comparePatientsByName(a, b): the comparison qsort is given.
comparePatientsByName_caseSensitive(a, b) ==
    LET n == IF Len(a.name) < Len(b.name) THEN Len(a.name) ELSE Len(b.name)
        differ == { k \in 1..n : a.name[k] # b.name[k] }
    IN  IF differ = {} THEN Len(a.name) - Len(b.name)
        ELSE LET k == CHOOSE k \in differ : \A m \in differ : k <= m
             IN  a.name[k] - b.name[k]
comparePatientsByName(a, b) == stricmp_custom(a.name, b.name)

\* What qsort may leave: any arrangement of the same records in which no
\* record is followed by one that compares smaller (the order among records
\* that compare equal is unspecified).
Sorted(tab) ==
    \A j \in 1..(Len(tab) - 1) : comparePatientsByName(tab[j], tab[j + 1]) <= 0

Arrangements(tab) ==
    { [ j \in 1..Len(tab) |-> tab[f[j]] ] : f \in Permutations(1..Len(tab)) }

SortPatientsByName ==
    /\ pc = "menu"
    /\ IF patientCount < 2
       THEN /\ out' = << "NotEnoughPatients" >>
            /\ UNCHANGED patients
       ELSE /\ patients' \in { q \in Arrangements(patients) : Sorted(q) }
            /\ out' = << "PatientsSorted" >>
    /\ UNCHANGED <<diseases, doctors, appointments, counts, nextIds, disk, pc, hist>>

\* ------------------------------------------------------------- appointments
\* if (pi == -1 || di == -1) { "Invalid patient or doctor ID"; return; }
InvalidReference_patientOnly(pi, di) == pi = 0 - 1
InvalidReference(pi, di) == pi = 0 - 1 \/ di = 0 - 1

\* if (patients[pi].doctorId == 0) patients[pi].doctorId = did;
AdoptDoctor_always(p, did) == [p EXCEPT !.doctorId = did]
AdoptDoctor(p, did) == IF p.doctorId = 0 THEN [p EXCEPT !.doctorId = did] ELSE p

AddAppointment_idBeforeChecks(pid, did, dt, tm) ==
    /\ pc = "menu"
    /\ LET pi == findPatientIndex(pid)
           di == findDoctorIndex(did)
       IN  IF AtCapacity(appointmentCount, MAX_APPOINTS)
           THEN /\ out' = << "MaxAppointmentsReached" >>
                /\ UNCHANGED <<memory, hist>>
           ELSE IF patientCount = 0 \/ doctorCount = 0
           THEN /\ out' = << "NeedPatientAndDoctor" >>
                /\ UNCHANGED <<memory, hist>>
           ELSE IF InvalidReference(pi, di)
           THEN /\ out' = << "InvalidPatientOrDoctor" >>
                /\ nextAppointmentId' = PostIncrement(nextAppointmentId)
                /\ UNCHANGED <<tables, counts, nextPatientId, nextDiseaseId,
                               nextDoctorId, hist>>
           ELSE /\ appointments' = Store(appointments, appointmentCount,
                                         [id |-> nextAppointmentId,
                                          patientId |-> pid, doctorId |-> did,
                                          date |-> dt, time |-> tm])
                /\ nextAppointmentId' = PostIncrement(nextAppointmentId)
                /\ appointmentCount' = appointmentCount + 1
                /\ patients' = [patients EXCEPT ![pi + 1] = AdoptDoctor(@, did)]
                /\ out' = (IF patients[pi + 1].doctorId = 0
                           THEN << "PrimaryDoctorSet" >> ELSE <<>>)
                          \o << "AppointmentScheduled" >>
                /\ hist' = [hist EXCEPT !.appointment = Append(@, nextAppointmentId)]
                /\ UNCHANGED <<diseases, doctors, patientCount, diseaseCount,
                               doctorCount, nextPatientId, nextDiseaseId,
                               nextDoctorId>>
    /\ UNCHANGED <<disk, pc>>
AddAppointment(pid, did, dt, tm) ==
    /\ pc = "menu"
    /\ LET pi == findPatientIndex(pid)
           di == findDoctorIndex(did)
       IN  IF AtCapacity(appointmentCount, MAX_APPOINTS)
           THEN /\ out' = << "MaxAppointmentsReached" >>
                /\ UNCHANGED <<memory, hist>>
           ELSE IF patientCount = 0 \/ doctorCount = 0
           THEN /\ out' = << "NeedPatientAndDoctor" >>
                /\ UNCHANGED <<memory, hist>>
           ELSE IF InvalidReference(pi, di)
           THEN /\ out' = << "InvalidPatientOrDoctor" >>
                /\ UNCHANGED <<memory, hist>>
           ELSE /\ appointments' = Store(appointments, appointmentCount,
                                         [id |-> nextAppointmentId,
                                          patientId |-> pid, doctorId |-> did,
                                          date |-> dt, time |-> tm])
                /\ nextAppointmentId' = PostIncrement(nextAppointmentId)
                /\ appointmentCount' = appointmentCount + 1
                /\ patients' = [patients EXCEPT ![pi + 1] = AdoptDoctor(@, did)]
                /\ out' = (IF patients[pi + 1].doctorId = 0
                           THEN << "PrimaryDoctorSet" >> ELSE <<>>)
                          \o << "AppointmentScheduled" >>
                /\ hist' = [hist EXCEPT !.appointment = Append(@, nextAppointmentId)]
                /\ UNCHANGED <<diseases, doctors, patientCount, diseaseCount,
                               doctorCount, nextPatientId, nextDiseaseId,
                               nextDoctorId>>
    /\ UNCHANGED <<disk, pc>>

CancelAppointment(id, confirm) ==
    /\ pc = "menu"
    /\ LET i == findAppointmentIndex(id) IN
       IF id <= 0
       THEN /\ out' = << "InvalidId" >>
            /\ UNCHANGED memory
       ELSE IF i # 0 - 1
       THEN IF confirm \in {"y", "Y"}
            THEN /\ appointments' = ShiftLeft(appointments, appointmentCount, i)
                 /\ appointmentCount' = appointmentCount - 1
                 /\ out' = << "AppointmentFound",
                              "AppointmentCanceled" >>
                 /\ UNCHANGED <<patients, diseases, doctors, patientCount,
                                diseaseCount, doctorCount, nextIds>>
            ELSE /\ out' = << "AppointmentFound", "Canceled" >>
                 /\ UNCHANGED memory
       ELSE /\ out' = << "NoAppointmentFound" >>
            /\ UNCHANGED memory
    /\ UNCHANGED <<disk, pc, hist>>

\* ------------------------------------------------------------- the program
\* A first run on a machine that has no save file.
Init ==
    /\ patients = <<>> /\ diseases = <<>> /\ doctors = <<>> /\ appointments = <<>>
    /\ patientCount = 0 /\ diseaseCount = 0 /\ doctorCount = 0 /\ appointmentCount = 0
    /\ nextPatientId = 1 /\ nextDiseaseId = 1 /\ nextDoctorId = 1
    /\ nextAppointmentId = 1
    /\ fileExists = FALSE
    /\ file = <<>>
    /\ fileHist = NoHist
    /\ saved = <<>>
    /\ pc = "start"
    /\ out = <<>>
    /\ hist = NoHist
    /\ dirty = 0
    /\ eof = FALSE
    /\ at = "get_choice"

\* The explored adds: any add that the table's capacity rejects, and the
\* others while the next-id counter is within the bound.
Within(count, max, nextId, bound) == AtCapacity(count, max) \/ nextId <= bound

\* --- One run of the program on a machine without a save file, every input.
SessionLoad == LoadData /\ UNCHANGED <<dirty, input>>
SessionAddPatient ==
    /\ Within(patientCount, MAX_PATIENTS, nextPatientId, MaxId)
    /\ \E n \in Names, a \in Ages, g \in Genders, ph \in Phones, d \in DiseaseTexts,
          docId \in IdInputs : AddPatient(n, a, g, ph, d, docId)
    /\ UNCHANGED <<dirty, input>>
SessionDeletePatient ==
    /\ \E id \in IdInputs, confirm \in Confirms : DeletePatient(id, confirm)
    /\ UNCHANGED <<dirty, input>>
SessionSortPatients == SortPatientsByName /\ UNCHANGED <<dirty, input>>
SessionSearchPatientById ==
    /\ \E id \in IdInputs : SearchPatientById(id)
    /\ UNCHANGED <<dirty, input>>
SessionSearchPatientByName ==
    /\ \E name \in QueryNames : SearchPatientByName(name)
    /\ UNCHANGED <<dirty, input>>
SessionAddDoctor ==
    /\ Within(doctorCount, MAX_DOCTORS, nextDoctorId, MaxId)
    /\ \E n \in DoctorNames, s \in Specializations, ph \in Phones : AddDoctor(n, s, ph)
    /\ UNCHANGED <<dirty, input>>
SessionAddDisease ==
    /\ Within(diseaseCount, MAX_DISEASES, nextDiseaseId, MaxId)
    /\ \E n \in DiseaseNames, s \in Symptoms, t \in Treatments : AddDisease(n, s, t)
    /\ UNCHANGED <<dirty, input>>
SessionAddAppointment ==
    /\ Within(appointmentCount, MAX_APPOINTS, nextAppointmentId, MaxAppointmentId)
    /\ \E pid \in IdInputs, did \in IdInputs, dt \in Dates, tm \in Times :
          AddAppointment(pid, did, dt, tm)
    /\ UNCHANGED <<dirty, input>>
SessionCancelAppointment ==
    /\ \E id \in IdInputs, confirm \in Confirms : CancelAppointment(id, confirm)
    /\ UNCHANGED <<dirty, input>>

NextSession ==
    \/ SessionLoad
    \/ SessionAddPatient
    \/ SessionDeletePatient
    \/ SessionSortPatients
    \/ SessionSearchPatientById
    \/ SessionSearchPatientByName
    \/ SessionAddDoctor
    \/ SessionAddDisease
    \/ SessionAddAppointment
    \/ SessionCancelAppointment

SpecSession == Init /\ [][NextSession]_vars

\* --- The sort and the search by name, on the table that the adds of up to
\* SortMaxPatients patients leave in a run without a save file and without
\* doctors (the capacity of the table is read by addPatient only).
InitNames ==
    /\ \E n \in 0..SortMaxPatients : \E names \in [1..n -> SortNames] :
       \E a \in Ages, g \in Genders, ph \in Phones, d \in DiseaseTexts :
          /\ patients = [ j \in 1..n |->
                            [id |-> j, name |-> names[j], age |-> a, gender |-> g,
                             phone |-> ph, disease |-> d, doctorId |-> 0] ]
          /\ patientCount = n
          /\ nextPatientId = n + 1
          /\ hist = [NoHist EXCEPT !.patient = [ j \in 1..n |-> j ]]
          /\ out = IF n = 0 THEN << "NoSaveFile" >>
                   ELSE << "NoDoctorsInSystem", "PatientAdded" >>
    /\ diseases = <<>> /\ doctors = <<>> /\ appointments = <<>>
    /\ diseaseCount = 0 /\ doctorCount = 0 /\ appointmentCount = 0
    /\ nextDiseaseId = 1 /\ nextDoctorId = 1 /\ nextAppointmentId = 1
    /\ fileExists = FALSE
    /\ file = <<>>
    /\ fileHist = NoHist
    /\ saved = <<>>
    /\ pc = "menu"
    /\ dirty = 0
    /\ eof = FALSE
    /\ at = "get_choice"

NamesSortPatients == SortPatientsByName /\ UNCHANGED <<dirty, input>>
NamesSearchPatientByName ==
    /\ \E name \in SortNames : SearchPatientByName(name)
    /\ UNCHANGED <<dirty, input>>

NextNames ==
    \/ NamesSortPatients
    \/ NamesSearchPatientByName

SpecNames == InitNames /\ [][NextNames]_vars

\* --- One run without a save file, with the input that get_int_from_user
\* reads: stdin can reach end-of-file, and a line need not be a number. The
\* handlers that start by asking for an id (searchPatientById, deletePatient,
\* cancelAppointment) take two steps: get_choice returns their menu number,
\* then get_int_from_user returns the id and the handler runs to its end.
IdPrompts == {"searchPatientById", "deletePatient", "cancelAppointment"}

\* get_choice() returned 3, 5 or 13: the handler cleared the screen and is in
\* get_int_from_user, which prompts for the id.
InputChoose ==
    /\ pc = "menu" /\ at = "get_choice" /\ ~eof
    /\ at' \in IdPrompts
    /\ out' = <<>>
    /\ UNCHANGED <<memory, disk, pc, hist, dirty, eof>>

\* get_int_from_user: getLine left the buffer empty (fgets returned NULL at
\* end-of-file) or holding something that is not a number; strtol finds no
\* number, the function prints "Invalid input" and prompts again.
GetIntInvalid ==
    /\ pc = "menu"
    /\ out' = << "InvalidInput" >>
    /\ UNCHANGED <<memory, disk, pc, hist, dirty, input>>

\* stdin reaches end-of-file.
InputEnds ==
    /\ pc = "menu" /\ ~eof
    /\ eof' = TRUE
    /\ UNCHANGED <<memory, disk, pc, out, hist, dirty, at>>

\* get_int_from_user read a number, and the handler ran to its end.
Returns(A) ==
    /\ ~eof
    /\ A
    /\ at' = "get_choice"
    /\ UNCHANGED <<dirty, eof>>

InputSearchPatientById ==
    /\ at = "searchPatientById"
    /\ \E id \in RunIdInputs : Returns(SearchPatientById(id))
InputDeletePatient ==
    /\ at = "deletePatient"
    /\ \E id \in RunIdInputs, confirm \in Confirms : Returns(DeletePatient(id, confirm))
InputCancelAppointment ==
    /\ at = "cancelAppointment"
    /\ \E id \in RunIdInputs, confirm \in Confirms :
          Returns(CancelAppointment(id, confirm))

\* The other handlers, in one step from the menu, with all their input there.
InputAddPatient ==
    /\ at = "get_choice"
    /\ Within(patientCount, MAX_PATIENTS, nextPatientId, RunMaxId)
    /\ \E n \in RunNames, a \in Ages, g \in Genders, ph \in Phones, d \in DiseaseTexts,
          docId \in RunIdInputs : Returns(AddPatient(n, a, g, ph, d, docId))
InputAddDoctor ==
    /\ at = "get_choice"
    /\ Within(doctorCount, MAX_DOCTORS, nextDoctorId, RunMaxId)
    /\ \E n \in DoctorNames, s \in Specializations, ph \in Phones :
          Returns(AddDoctor(n, s, ph))
InputAddAppointment ==
    /\ at = "get_choice"
    /\ Within(appointmentCount, MAX_APPOINTS, nextAppointmentId, RunMaxId)
    /\ \E pid \in RunIdInputs, did \in RunIdInputs, dt \in Dates, tm \in Times :
          Returns(AddAppointment(pid, did, dt, tm))

NextInput ==
    \/ SessionLoad
    \/ InputChoose
    \/ GetIntInvalid
    \/ InputEnds
    \/ InputSearchPatientById
    \/ InputDeletePatient
    \/ InputCancelAppointment
    \/ InputAddPatient
    \/ InputAddDoctor
    \/ InputAddAppointment

SpecInput == Init /\ [][NextInput]_vars

\* --- The program over successive runs, with the save file.
\* A handler's step counts as a change when it changed the tables.
Changed(A) ==
    /\ A
    /\ dirty' = IF memory' # memory THEN dirty + 1 ELSE dirty
    /\ dirty' <= MaxDirty
    /\ UNCHANGED input

RunLoad == LoadData /\ dirty' = 0 /\ UNCHANGED input
RunAddPatient ==
    /\ Within(patientCount, MAX_PATIENTS, nextPatientId, RunMaxId)
    /\ \E n \in RunNames, a \in Ages, g \in Genders, ph \in Phones, d \in DiseaseTexts,
          docId \in RunIdInputs : Changed(AddPatient(n, a, g, ph, d, docId))
RunDeletePatient ==
    \E id \in RunIdInputs, confirm \in RunConfirms : Changed(DeletePatient(id, confirm))
RunSortPatients == Changed(SortPatientsByName)
RunAddDoctor ==
    /\ Within(doctorCount, MAX_DOCTORS, nextDoctorId, RunMaxId)
    /\ \E n \in DoctorNames, s \in Specializations, ph \in Phones :
          Changed(AddDoctor(n, s, ph))
RunAddDisease ==
    /\ Within(diseaseCount, MAX_DISEASES, nextDiseaseId, RunMaxId)
    /\ \E n \in DiseaseNames, s \in Symptoms, t \in Treatments :
          Changed(AddDisease(n, s, t))
RunAddAppointment ==
    /\ appointmentCount < RunMaxAppointments
    /\ nextAppointmentId <= RunMaxId
    /\ \E pid \in RunIdInputs, did \in RunIdInputs, dt \in Dates, tm \in Times :
          Changed(AddAppointment(pid, did, dt, tm))
RunCancelAppointment ==
    \E id \in RunIdInputs, confirm \in RunConfirms :
       Changed(CancelAppointment(id, confirm))
RunSaveData ==
    /\ \E ok \in BOOLEAN : SaveData(ok) /\ dirty' = IF ok THEN 0 ELSE dirty
    /\ UNCHANGED input
RunExit ==
    /\ \E ok \in BOOLEAN : Exit(ok) /\ dirty' = IF ok THEN 0 ELSE dirty
    /\ UNCHANGED input
RunRestart == Restart /\ dirty' = 0 /\ UNCHANGED input

Next ==
    \/ RunLoad
    \/ RunAddPatient
    \/ RunDeletePatient
    \/ RunSortPatients
    \/ RunAddDoctor
    \/ RunAddDisease
    \/ RunAddAppointment
    \/ RunCancelAppointment
    \/ RunSaveData
    \/ RunExit
    \/ RunRestart

Spec == Init /\ [][Next]_vars

\* ------------------------------------------------------------- properties
Ids(tab) == { tab[j].id : j \in 1..Len(tab) }
Range(q) == { q[j] : j \in 1..Len(q) }
Last(q) == q[Len(q)]

\* A step of a handler that appended a record to a table of count records.
Added(count, tab) ==
    /\ pc = "menu" /\ pc' = "menu"
    /\ count' = count + 1
    /\ Len(tab') = count + 1

\* C1: starting from the empty database, the Nth successful add of a type
\* gives the new record the id N, whatever deletes, cancels, declined deletes
\* and rejected adds happened before it (hist counts the successful adds).
C1_NthAddGetsIdN ==
    [][ /\ Added(patientCount, patients) =>
             /\ Last(patients').id = Len(hist.patient) + 1
             /\ hist'.patient = Append(hist.patient, Last(patients').id)
        /\ Added(diseaseCount, diseases) =>
             /\ Last(diseases').id = Len(hist.disease) + 1
             /\ hist'.disease = Append(hist.disease, Last(diseases').id)
        /\ Added(doctorCount, doctors) =>
             /\ Last(doctors').id = Len(hist.doctor) + 1
             /\ hist'.doctor = Append(hist.doctor, Last(doctors').id)
        /\ Added(appointmentCount, appointments) =>
             /\ Last(appointments').id = Len(hist.appointment) + 1
             /\ hist'.appointment = Append(hist.appointment, Last(appointments').id)
        /\ (patientCount' <= patientCount => hist'.patient = hist.patient)
        /\ (appointmentCount' <= appointmentCount
               => hist'.appointment = hist.appointment)
      ]_vars

\* The third patient was added after a delete, and holds id 3 in a table of
\* fewer than three records; the second appointment was added after a cancel.
C1_Witness ==
    /\ out = << "NoDoctorFound", "PatientAdded" >>
    /\ patientCount < 3
    /\ Last(patients).id = 3
    /\ appointmentCount = 1
    /\ Last(appointments).id = 2

\* C2: round trip. When a fresh process loads the save file, the four counts,
\* the four next-id counters and the live records of the four tables, in
\* their order, are those of the state in which the file was written.
C2_RoundTrip ==
    [][ (pc = "start" /\ pc' = "menu" /\ fileExists) => memory' = saved ]_vars

\* A load of a file holding records of all four tables, two patients that are
\* not in id order (they were sorted), and an appointment counter that is
\* ahead of the count (an appointment was cancelled).
C2_Witness ==
    /\ out = << "DataLoaded" >>
    /\ patientCount = 2 /\ patients[1].id > patients[2].id
    /\ diseaseCount = 1 /\ doctorCount = 2 /\ appointmentCount = 1
    /\ nextPatientId = 3 /\ nextAppointmentId = 3

\* C3: every non-zero doctorId of a live patient and every doctorId of a live
\* appointment is the id of a doctor in the doctors table.
C3_DoctorReferencesResolve ==
    /\ \A j \in 1..patientCount :
          patients[j].doctorId # 0 => patients[j].doctorId \in Ids(doctors)
    /\ \A j \in 1..appointmentCount : appointments[j].doctorId \in Ids(doctors)

\* A loaded database in which a patient and an appointment name doctor 2 and
\* another patient has no doctor.
C3_Witness ==
    /\ out = << "DataLoaded" >>
    /\ \E j, k \in 1..patientCount : patients[j].doctorId = 2 /\ patients[k].doctorId = 0
    /\ \E j \in 1..appointmentCount : appointments[j].doctorId = 2

\* C9: the ids of the live records of each table are positive and pairwise
\* distinct.
UniquePositiveIds(tab, count) ==
    /\ Len(tab) = count
    /\ \A j \in 1..count : tab[j].id > 0
    /\ \A j, k \in 1..count : tab[j].id = tab[k].id => j = k

C9_IdsPositiveDistinct ==
    /\ UniquePositiveIds(patients, patientCount)
    /\ UniquePositiveIds(diseases, diseaseCount)
    /\ UniquePositiveIds(doctors, doctorCount)
    /\ UniquePositiveIds(appointments, appointmentCount)

\* A second patient added, in a later run, to a loaded database of one
\* patient, and then sorted in front of the first.
C9_Witness ==
    /\ out = << "PatientsSorted" >>
    /\ patientCount = 2 /\ patients[1].id = 2 /\ patients[2].id = 1
    /\ saved # <<>> /\ saved[2][1] = 1 /\ saved[3][1] = 2
    /\ hist = [fileHist EXCEPT !.patient = Append(@, 2)]

\* C10: an add never gives a record an id that was handed out before on the
\* way to the database in memory, whether the record that held it was deleted
\* or cancelled, or the database went through a save and a load in a later run.
C10_NoIdReuse ==
    [][ /\ Added(patientCount, patients) => Last(patients').id \notin Range(hist.patient)
        /\ Added(diseaseCount, diseases) => Last(diseases').id \notin Range(hist.disease)
        /\ Added(doctorCount, doctors) => Last(doctors').id \notin Range(hist.doctor)
        /\ Added(appointmentCount, appointments) =>
              Last(appointments').id \notin Range(hist.appointment)
        /\ (pc = "start" /\ pc' = "menu" /\ fileExists) => hist' = fileHist
        /\ \A t \in DOMAIN hist :
              (pc = "menu" /\ pc' = "menu") => Range(hist[t]) \subseteq Range(hist'[t])
      ]_vars

\* An appointment added in a later run, after the only appointment of the
\* saved database had been cancelled before the save.
C10_Witness ==
    /\ out # <<>> /\ Last(out) = "AppointmentScheduled"
    /\ saved # <<>> /\ saved[2][4] = 0 /\ saved[3][4] = 2
    /\ fileHist.appointment = << 1 >>
    /\ hist.appointment = << 1, 2 >>

\* The step is one in which the handler that ran ended on one of msgs.
Says(msgs) == pc = "menu" /\ out' # <<>> /\ Last(out') \in msgs

AddAppointmentSays ==
    Says({"AppointmentScheduled", "InvalidPatientOrDoctor", "NeedPatientAndDoctor",
          "MaxAppointmentsReached"})
AddPatientSays == Says({"PatientAdded", "MaxPatientsReached"})
AddDiseaseSays == Says({"DiseaseAdded", "MaxDiseasesReached"})
AddDoctorSays == Says({"DoctorAdded", "MaxDoctorsReached"})
DeletePatientSays ==
    Says({"InvalidId", "PatientDeleted", "DeletionCanceled", "NoPatientFound"})
CancelAppointmentSays ==
    Says({"InvalidId", "AppointmentCanceled", "Canceled", "NoAppointmentFound"})

\* C4: a successful addAppointment(pid, did) sets the doctorId of patient pid
\* to did when it was 0 and leaves it when it was not, whichever doctor did
\* is; no other patient and no other field of a patient changes.
C4_AppointmentAdoptsDoctor ==
    [][ (AddAppointmentSays /\ appointmentCount' = appointmentCount + 1) =>
          \A pid \in IdInputs, did \in IdInputs :
             (\E dt \in Dates, tm \in Times : AddAppointment(pid, did, dt, tm))
             => /\ patientCount' = patientCount
                /\ Len(patients') = patientCount
                /\ \A j \in 1..patientCount :
                      patients'[j] =
                         IF patients[j].id = pid /\ patients[j].doctorId = 0
                         THEN [patients[j] EXCEPT !.doctorId = did]
                         ELSE patients[j]
      ]_vars

\* An appointment with doctor 2 was added for patient 2, who stands first in
\* the table (after a sort or a delete) and keeps doctor 1.
C4_Witness ==
    /\ out = << "AppointmentScheduled" >>
    /\ Last(appointments).patientId = 2 /\ Last(appointments).doctorId = 2
    /\ patients[1].id = 2 /\ patients[1].doctorId = 1

\* C5: below capacity, addAppointment(pid, did) appends an appointment for
\* pid and did exactly when pid is the id of a patient and did the id of a
\* doctor; otherwise it reports the invalid reference ("Invalid patient or
\* doctor ID", or "Need at least one patient and one doctor" when a table is
\* empty) and leaves the appointments and their count unchanged.
C5_AppointmentNeedsReferences ==
    [][ (AddAppointmentSays /\ appointmentCount < MAX_APPOINTS) =>
        \A pid \in IdInputs, did \in IdInputs, dt \in Dates, tm \in Times :
          AddAppointment(pid, did, dt, tm)
          => IF pid \in Ids(patients) /\ did \in Ids(doctors)
             THEN /\ appointmentCount' = appointmentCount + 1
                  /\ appointments' = Append(appointments,
                                            [id |-> nextAppointmentId, patientId |-> pid,
                                             doctorId |-> did, date |-> dt, time |-> tm])
             ELSE /\ out' \in { << "InvalidPatientOrDoctor" >>,
                                << "NeedPatientAndDoctor" >> }
                  /\ appointmentCount' = appointmentCount
                  /\ appointments' = appointments
      ]_vars

\* A rejected appointment in a database that holds patients, doctors and an
\* appointment.
C5_Witness ==
    /\ out = << "InvalidPatientOrDoctor" >>
    /\ appointmentCount = 1 /\ patientCount = 2 /\ doctorCount = 1

\* The table without the record of the given id.
Without(tab, id) == SelectSeq(tab, LAMBDA r : r.id # id)

C7_DeleteUnknownId ==
    [][ /\ DeletePatientSays =>
             \A id \in IdInputs \ Ids(patients), confirm \in Confirms :
                DeletePatient(id, confirm)
                => /\ out' = << IF id > 0 THEN "NoPatientFound" ELSE "InvalidId" >>
                   /\ patients' = patients
                   /\ patientCount' = patientCount
        /\ CancelAppointmentSays =>
             \A id \in IdInputs \ Ids(appointments), confirm \in Confirms :
                CancelAppointment(id, confirm)
                => /\ out' = << IF id > 0 THEN "NoAppointmentFound" ELSE "InvalidId" >>
                   /\ appointments' = appointments
                   /\ appointmentCount' = appointmentCount
      ]_vars

\* A delete of an id that was deleted before, in a table that holds records.
C7_Witness ==
    /\ out = << "NoPatientFound" >>
    /\ patientCount = 2 /\ nextPatientId = 4

\* C8: no table holds more records than its capacity, and an add attempted
\* at capacity reports it and changes no table, count or counter.
C8_CapacityRespected ==
    [][ /\ patientCount' <= MAX_PATIENTS /\ diseaseCount' <= MAX_DISEASES
        /\ doctorCount' <= MAX_DOCTORS /\ appointmentCount' <= MAX_APPOINTS
        /\ (patientCount = MAX_PATIENTS /\ AddPatientSays)
              => (out' = << "MaxPatientsReached" >> /\ memory' = memory)
        /\ (diseaseCount = MAX_DISEASES /\ AddDiseaseSays)
              => (out' = << "MaxDiseasesReached" >> /\ memory' = memory)
        /\ (doctorCount = MAX_DOCTORS /\ AddDoctorSays)
              => (out' = << "MaxDoctorsReached" >> /\ memory' = memory)
        /\ (appointmentCount = MAX_APPOINTS /\ AddAppointmentSays)
              => (out' = << "MaxAppointmentsReached" >> /\ memory' = memory)
      ]_vars

\* An add was rejected with the patient table full, the counter untouched.
C8_Witness ==
    /\ out = << "MaxPatientsReached" >>
    /\ patientCount = MAX_PATIENTS
    /\ nextPatientId = MAX_PATIENTS + 1

\* C11: within a session a next-id counter changes only by +1, and only in a
\* step that is a successful add of its own type (the add reports success,
\* the table grows by the record that carries the counter's old value); the
\* other three counters are unchanged in that step. So no counter decreases,
\* and deletes, cancels, sorts, searches and adds of another type leave it.
CounterStep(nextId, count, tab, msg) ==
    /\ nextId' \in {nextId, nextId + 1}
    /\ nextId' # nextId =>
          /\ Last(out') = msg
          /\ count' = count + 1
          /\ Last(tab').id = nextId

C11_CountersStepByOwnAdd ==
    [][ pc = "menu" =>
          /\ CounterStep(nextPatientId, patientCount, patients, "PatientAdded")
          /\ CounterStep(nextDiseaseId, diseaseCount, diseases, "DiseaseAdded")
          /\ CounterStep(nextDoctorId, doctorCount, doctors, "DoctorAdded")
          /\ CounterStep(nextAppointmentId, appointmentCount, appointments,
                         "AppointmentScheduled")
          /\ Cardinality({ k \in 1..4 : nextIds'[k] # nextIds[k] }) <= 1
      ]_vars

\* A second doctor was added after two patients and an appointment: the
\* doctor counter moved to 3, the others stand where their own adds left them.
C11_Witness ==
    /\ out = << "DoctorAdded" >>
    /\ nextIds = << 3, 1, 3, 2 >>
    /\ patientCount = 1

\* The name with its letters A-Z replaced by a-z.
Folded(name) == [ k \in 1..Len(name) |-> IF name[k] \in 65..90 THEN name[k] + 32
                                          ELSE name[k] ]

\* a comes no later than b in lexicographic order of the character codes.
LexLeq(a, b) ==
    \/ /\ Len(a) <= Len(b)
       /\ \A k \in 1..Len(a) : a[k] = b[k]
    \/ \E k \in 1..Len(a) :
          /\ k <= Len(b)
          /\ a[k] < b[k]
          /\ \A m \in 1..(k - 1) : a[m] = b[m]

\* q holds the records of tab, each as often as tab does.
SameRecords(q, tab) ==
    /\ Len(q) = Len(tab)
    /\ \A j \in 1..Len(tab) :
          Cardinality({ k \in 1..Len(q) : q[k] = tab[j] })
             = Cardinality({ k \in 1..Len(tab) : tab[k] = tab[j] })

\* C12: sortPatientsByName with two or more patients leaves the same patient
\* records (ids and fields unchanged, count unchanged) arranged so that each
\* name comes no later than the next in the lexicographic order of the names
\* with A-Z folded to a-z; with fewer than two patients it changes nothing.
\* No other table, count or counter changes.
C12_SortByFoldedName ==
    [][ Says({"PatientsSorted", "NotEnoughPatients"}) =>
          /\ UNCHANGED <<diseases, doctors, appointments, counts, nextIds>>
          /\ IF patientCount >= 2
             THEN /\ out' = << "PatientsSorted" >>
                  /\ SameRecords(patients', patients)
                  /\ \A j \in 1..(patientCount - 1) :
                        LexLeq(Folded(patients'[j].name), Folded(patients'[j + 1].name))
             ELSE /\ out' = << "NotEnoughPatients" >>
                  /\ patients' = patients
      ]_vars

\* "Bob", "alice", "Charlie" were added in this order and sorted.
C12_Witness ==
    /\ out = << "PatientsSorted" >>
    /\ patientCount = 3
    /\ patients[1].id = 2 /\ patients[1].name = <<97, 108, 105, 99, 101>>
    /\ patients[2].id = 1 /\ patients[2].name = <<66, 111, 98>>
    /\ patients[3].id = 3 /\ patients[3].name = <<67, 104, 97, 114, 108, 105, 101>>

\* What a search printed: the ids of the lines under "Matches:".
Reported(o) == IF Head(o) = "Matches" THEN Range(Tail(o)) ELSE {}

\* C13: searchPatientByName(name) reports each live patient whose whole name,
\* with A-Z folded to a-z, is the folded query, once, and no other patient
\* (a name that only starts with or contains the query is not a match); it
\* reports that none was found when there is none, and changes no table.
C13_SearchExactFoldedName ==
    [][ (pc = "menu" /\ out' # <<>> /\ Head(out') \in {"Matches", "NoPatientNamed"}) =>
          \A name \in SortNames :
             SearchPatientByName(name) =>
                LET matching == { j \in 1..patientCount :
                                     Folded(patients[j].name) = Folded(name) }
                IN  /\ Reported(out') = { ToString(patients[j].id) : j \in matching }
                    /\ Len(out') = IF matching = {} THEN 1
                                   ELSE 1 + Cardinality(matching)
                    /\ (matching = {}) = (out' = << "NoPatientNamed" >>)
                    /\ memory' = memory
      ]_vars

\* A search for "john", "John" or "JOHN" in the table "John", "Johnny", "JOHN"
\* reported the first and the third patient.
C13_Witness ==
    /\ out = << "Matches", "1", "3" >>
    /\ patientCount = 3
    /\ patients[1].name = <<74, 111, 104, 110>>
    /\ patients[2].name = <<74, 111, 104, 110, 110, 121>>
    /\ patients[3].name = <<74, 79, 72, 78>>

\* C14: when the program starts and there is no save file, loadData reports
\* that it starts a new database and main goes on to the menu loop with the
\* four counts 0 and the four next-id counters 1.
C14_NoSaveFileStartsEmpty ==
    [][ (pc = "start" /\ ~fileExists) =>
          /\ pc' = "menu"
          /\ out' = << "NoSaveFile" >>
          /\ counts' = << 0, 0, 0, 0 >>
          /\ nextIds' = << 1, 1, 1, 1 >>
          /\ ~fileExists'
      ]_vars

\* The menu loop was entered without a save file.
C14_Witness ==
    /\ pc = "menu"
    /\ out = << "NoSaveFile" >>
    /\ ~fileExists
    /\ counts = << 0, 0, 0, 0 >>
    /\ nextIds = << 1, 1, 1, 1 >>

\* C15: a run starts with loadData and with nothing else: the step from the
\* start of main is the load, and no later step of the run loads again or
\* runs before it. The menu loop is left only by menu choice 15, in the step
\* that first calls saveData (which reports its success or its failure) on the
\* tables as the last mutation of the run left them; when that save
\* succeeds the file holds exactly the state in memory.
C15_LoadFirstSaveBeforeExit ==
    [][ /\ pc = "start" =>
             /\ pc' = "menu"
             /\ out' \in { << "NoSaveFile" >>, << "DataLoaded" >> }
        /\ pc = "menu" =>
             /\ pc' \in {"menu", "exited"}
             /\ out' \notin { << "NoSaveFile" >>, << "DataLoaded" >> }
        /\ (pc = "menu" /\ pc' = "exited") =>
             /\ Len(out') = 2
             /\ out'[1] \in {"DataSaved", "SaveOpenFailed"}
             /\ out'[2] = "Exiting"
             /\ memory' = memory
             /\ out'[1] = "DataSaved" => (fileExists' /\ saved' = memory /\ dirty' = 0)
        /\ pc' = "exited" => pc \in {"menu", "exited"}
      ]_vars

\* The program exited after a save that could not open the file, with
\* changes that no save had written; an earlier save had succeeded.
C15_Witness ==
    /\ pc = "exited"
    /\ out = << "SaveOpenFailed", "Exiting" >>
    /\ dirty > 0
    /\ fileExists

\* C16: a saveData that cannot open the save file reports it and leaves the
\* tables, counts and next-id counters (and the file) as they were; after
\* menu choice 14 the program is back in the menu loop, after menu choice 15
\* it says goodbye and terminates.
C16_SaveFailureIsNotFatal ==
    [][ (pc = "menu" /\ out' # <<>> /\ Head(out') = "SaveOpenFailed") =>
          /\ memory' = memory
          /\ UNCHANGED <<fileExists, file>>
          /\ \/ out' = << "SaveOpenFailed" >> /\ pc' = "menu"
             \/ out' = << "SaveOpenFailed", "Exiting" >> /\ pc' = "exited"
      ]_vars

\* A save on demand failed with unsaved patients in memory and an older
\* save file on disk; the program is in the menu loop.
C16_Witness ==
    /\ pc = "menu"
    /\ out = << "SaveOpenFailed" >>
    /\ dirty > 0 /\ patientCount > 0
    /\ fileExists /\ saved # memory

\* What a handler prints last when it rejects the operation or the user
\* declines it.
Rejections ==
    {"MaxPatientsReached", "MaxDiseasesReached", "MaxDoctorsReached",
     "MaxAppointmentsReached", "InvalidId", "NoPatientFound", "PatientNotFound",
     "NoPatientNamed", "NoAppointmentFound", "NeedPatientAndDoctor",
     "InvalidPatientOrDoctor", "DeletionCanceled", "Canceled", "NotEnoughPatients"}

\* C17: an add, delete, cancel, sort or search that ends on a rejection (table
\* full, id not found or invalid, reference not found, nothing to sort) or on
\* a declined confirmation leaves the four tables, the four counts and the
\* four next-id counters as they were; no id is handed out.
C17_RejectedChangesNothing ==
    [][ Says(Rejections) => (memory' = memory /\ hist' = hist) ]_vars

\* A delete of an existing patient was declined, in a database that holds
\* patients, a doctor and an appointment.
C17_Witness ==
    /\ out = << "PatientFound", "DeletionCanceled" >>
    /\ patientCount = 2 /\ doctorCount = 1 /\ appointmentCount = 1
    /\ nextIds = << 3, 1, 2, 2 >>

\* The operation in progress ends and control is back at the menu.
ReturnToMenu == NextInput /\ at' = "get_choice"

\* C18: an operation started from the menu can always run to its end and
\* return control to the menu loop, also when stdin has reached end-of-file
\* while get_int_from_user prompts for its id.
C18_OperationReturnsToMenu ==
    (pc = "menu" /\ at \in IdPrompts) => ENABLED ReturnToMenu

\* The database of a fresh process that loaded nothing.
EmptyDatabase == << << <<>>, <<>>, <<>>, <<>> >>, << 0, 0, 0, 0 >>, << 1, 1, 1, 1 >> >>

\* C19: what a run holds after its load is the state that the most recent
\* successful saveData of the earlier runs wrote (saved), and the empty
\* database when none succeeded. A successful save makes the state in memory
\* that state and leaves nothing else in the file; a save that cannot open
\* the file, and every other step, leaves the file and that state alone. So
\* a record that an earlier save held and that was deleted before a later
\* save does not come back.
C19_LoadsLastSuccessfulSave ==
    [][ /\ (pc = "start" /\ pc' = "menu") =>
             memory' = IF fileExists THEN saved ELSE EmptyDatabase
        /\ IF pc = "menu" /\ out' # <<>> /\ Head(out') = "DataSaved"
           THEN /\ fileExists'
                /\ saved' = memory
                /\ Len(file') = HeaderInts + patientCount + diseaseCount + doctorCount
                                 + appointmentCount
           ELSE UNCHANGED <<fileExists, file, saved>>
        /\ fileExists = (saved # <<>>)
      ]_vars

\* A run loaded a database without patient 1 but with the appointment that
\* was made for patient 1: with at most MaxDirty = 2 changes between saves,
\* an earlier successful save held patient 1 (added before the appointment,
\* deleted after it), and a later one replaced it.
C19_Witness ==
    /\ out = << "DataLoaded" >>
    /\ patientCount = 0
    /\ appointmentCount = 1 /\ appointments[1].patientId = 1
    /\ fileHist.patient = << 1 >>

\* C20: deletePatient, whatever its outcome, leaves the diseases, doctors
\* and appointments tables, their counts and the four next-id counters as
\* they were, and changes the patient table only when it deletes; the
\* appointments of the deleted patient stay, naming an id that no patient
\* carries any more.
C20_DeletePatientOnlyPatients ==
    [][ DeletePatientSays =>
          /\ UNCHANGED <<diseases, doctors, appointments, diseaseCount, doctorCount,
                         appointmentCount, nextIds>>
          /\ Last(out') # "PatientDeleted" => UNCHANGED <<patients, patientCount>>
          /\ Last(out') = "PatientDeleted" =>
                \E id \in Ids(patients) \ Ids(patients') :
                   \A j \in 1..appointmentCount :
                      appointments[j].patientId = id =>
                         /\ appointments'[j] = appointments[j]
                         /\ appointments'[j].patientId \notin Ids(patients')
      ]_vars

\* Patient 1 was deleted and the appointment made for patient 1 is still in
\* the table, next to one for patient 2 who is still there.
C20_Witness ==
    /\ out = << "PatientFound", "PatientDeleted" >>
    /\ patientCount = 1 /\ patients[1].id = 2
    /\ appointmentCount = 2
    /\ appointments[1].patientId = 1 /\ appointments[2].patientId = 2

\* C21: below capacity, addPatient adds the patient whatever doctor id is
\* entered; the record's doctorId is that id when it is the id of a doctor
\* in the doctors table, and 0 otherwise (the id is 0, or no doctor carries
\* it, or there is no doctor and none is asked for). The other fields are
\* the ones entered and the id is the next patient id.
C21_UnknownDoctorStoredAsNone ==
    [][ (AddPatientSays /\ patientCount < MAX_PATIENTS) =>
          \A n \in Names, docId \in IdInputs :
             (\E a \in Ages, g \in Genders, ph \in Phones, d \in DiseaseTexts :
                 AddPatient(n, a, g, ph, d, docId))
             => /\ out' # << "MaxPatientsReached" >>
                /\ patientCount' = patientCount + 1
                /\ Len(patients') = patientCount + 1
                /\ Last(patients').id = nextPatientId
                /\ Last(patients').name = n
                /\ Last(patients').doctorId =
                      IF docId \in Ids(doctors) THEN docId ELSE 0
                /\ \A j \in 1..patientCount : patients'[j] = patients[j]
      ]_vars

\* A patient was added with a doctor id that no doctor carries, next to a
\* patient who has doctor 1: the new record has no doctor.
C21_Witness ==
    /\ out = << "NoDoctorFound", "PatientAdded" >>
    /\ doctorCount = 1
    /\ patientCount = 2
    /\ patients[1].doctorId = 1
    /\ patients[2].doctorId = 0

====
